---------------------------- MODULE Spec2Model ----------------------------
(***************************************************************************)
(* A model of TouchPortalAPI/sdk_tools.py: the generator that builds an    *)
(* entry.tp definition from a plugin declaration, the validator that walks *)
(* an existing definition, the format token rewriter and the module-wide   *)
(* message list g_messages.                                                *)
(*                                                                         *)
(* Python values are records tagged with their type; a str is the sequence *)
(* of its characters; a dict is the sequence of its (key, value) pairs in  *)
(* insertion order, keys being TLA+ strings.                               *)
(***************************************************************************)
EXTENDS Integers, Sequences, FiniteSets, TLC

VARIABLES
    g_messages,     \* sdk_tools.g_messages
    defCategories,  \* the list object held as TPSDK_ATTRIBS_ROOT['categories']['d']
    defSettings,    \* the list object held as TPSDK_ATTRIBS_ROOT['settings']['d']
    lastOp,         \* the most recent top-level call
    lastDecl,       \* the declaration a generate call was given
    lastData,       \* the decoded object a validate call was given
    outcome,        \* "returned", or the exception the call raised
    entry,          \* the dict a generate call returned
    valid,          \* the bool a validate call returned
    produced,       \* history: the messages added during the most recent call
    fromGen,        \* history: lastData is the dict the preceding generate returned
    genProduced,    \* history: the messages that generate call added
    fmt,            \* _replaceFormatTokens: local fmt
    begin,          \* _replaceFormatTokens: local begin
    fdata,          \* _replaceFormatTokens: the entry's data list
    fsrc,           \* history: the entry's format before rewriting
    fpc,            \* _replaceFormatTokens: position in the while loop
    bItem,          \* _dictFromItem: item; _arrayFromDict: d
    bTable,         \* the name of the table passed as table
    bSdk,           \* sdk_v
    bCategory,      \* _arrayFromDict: category
    bRet,           \* the value returned
    bMsgs,          \* the messages added during the call
    bpc             \* which builder is called, or has returned

vars == <<g_messages, defCategories, defSettings, lastOp, lastDecl, lastData,
          outcome, entry, valid, produced, fromGen, genProduced,
          fmt, begin, fdata, fsrc, fpc,
          bItem, bTable, bSdk, bCategory, bRet, bMsgs, bpc>>

genVars == <<g_messages, defCategories, defSettings, lastOp, lastDecl, lastData,
             outcome, entry, valid, produced, fromGen, genProduced>>

fmtVars == <<fmt, begin, fdata, fsrc, fpc>>

buildVars == <<bItem, bTable, bSdk, bCategory, bRet, bMsgs, bpc>>

(***************************************************************************)
(* Python values                                                           *)
(***************************************************************************)
None == [t |-> "none"]

IntV(n) == [t |-> "int", i |-> n]

StrV(s) == [t |-> "str", s |-> s]

BoolV(b) == [t |-> "bool", b |-> b]

ListV(l) == [t |-> "list", l |-> l]

DictV(d) == [t |-> "dict", d |-> d]

KV(k, v) == [k |-> k, v |-> v]

\* bool(value) is False
Falsy(v) ==
    CASE v.t = "none" -> TRUE
      [] v.t = "int"  -> v.i = 0
      [] v.t = "str"  -> v.s = <<>>
      [] v.t = "bool" -> ~v.b
      [] v.t = "list" -> v.l = <<>>
      [] v.t = "dict" -> v.d = <<>>

\* isinstance(value, typ); bool is a subclass of int
IsInstance(v, typ) == v.t = typ \/ (typ = "int" /\ v.t = "bool")

\* the comparison sdk_v < min_sdk is defined for these operands only
Orderable(v) == v.t \in {"int", "bool"}

AsInt(v) == IF v.t = "int" THEN v.i ELSE IF v.b THEN 1 ELSE 0

Keys(d) == {d[n].k : n \in 1..Len(d)}

HasKey(d, k) == \E n \in 1..Len(d) : d[n].k = k

\* dict.get(k): the value, or None
Get(d, k) ==
    IF HasKey(d, k) THEN d[CHOOSE n \in 1..Len(d) : d[n].k = k].v ELSE None

\* dict.get(k, dflt)
GetOr(d, k, dflt) ==
    IF HasKey(d, k) THEN d[CHOOSE n \in 1..Len(d) : d[n].k = k].v ELSE dflt

\* d[k] = v
Put(d, k, v) ==
    IF HasKey(d, k)
    THEN [n \in 1..Len(d) |-> IF d[n].k = k THEN KV(k, v) ELSE d[n]]
    ELSE Append(d, KV(k, v))

\* a str key as a str value: the model's keys that are compared with values
\* are one character long
KeyStr(k) == StrV(<<k>>)

(***************************************************************************)
(* Attribute paths and messages                                            *)
(***************************************************************************)
Seg(n) == [b |-> FALSE, n |-> n]

Idx(n) == [b |-> TRUE, n |-> n]

_keyPath(path, key) == IF key = "" THEN path ELSE Append(path, Seg(key))

\* f"{path}[{key}]"
Bracket(path, key) == Append(path, Idx(key))

\* f"{i:d}"
IdxStr(i) == <<"0", "1", "2", "3", "4", "5", "6", "7", "8", "9">>[i + 1]

Msg(kind, path) == [kind |-> kind, path |-> path]

(***************************************************************************)
(* sdk_spec: the attribute tables                                          *)
(***************************************************************************)
TPSDK_DEFAULT_VERSION == 4

S_text == <<"t", "e", "x", "t">>

S_number == <<"n", "u", "m">>

S_communicate == <<"c", "o", "m">>

S_execute == <<"e", "x", "e">>

\* one table entry: key, 'v', 'r', 't', 'd' (None: no default), 'c' ({}: none),
\* 'l' ("": no nested table)
Attr(k, v, r, t, d, c, l) ==
    [k |-> k, v |-> v, r |-> r, t |-> t, d |-> d, c |-> c, l |-> l]

TPSDK_ATTRIBS_SETTINGS ==
    << Attr("name", 3, TRUE, "str", None, {}, ""),
       Attr("type", 3, TRUE, "str", StrV(S_text), {StrV(S_text), StrV(S_number)}, "") >>

TPSDK_ATTRIBS_STATE ==
    << Attr("id", 1, TRUE, "str", None, {}, ""),
       Attr("default", 1, TRUE, "str", StrV(<<>>), {}, "") >>

TPSDK_ATTRIBS_EVENT ==
    << Attr("id", 1, TRUE, "str", None, {}, ""),
       Attr("valueType", 1, TRUE, "str", StrV(<<"c">>), {StrV(<<"c">>)}, "") >>

TPSDK_ATTRIBS_ACT_DATA ==
    << Attr("id", 1, TRUE, "str", None, {}, ""),
       Attr("type", 1, TRUE, "str", StrV(S_text), {StrV(S_text), StrV(S_number)}, ""),
       Attr("allowDecimals", 2, FALSE, "bool", None, {}, "") >>

TPSDK_ATTRIBS_ACTION ==
    << Attr("id", 1, TRUE, "str", None, {}, ""),
       Attr("type", 1, TRUE, "str", StrV(S_communicate),
            {StrV(S_communicate), StrV(S_execute)}, ""),
       Attr("format", 1, FALSE, "str", None, {}, ""),
       Attr("hasHoldFunctionality", 3, FALSE, "bool", None, {}, ""),
       Attr("data", 1, FALSE, "list", None, {}, "ACT_DATA") >>

TPSDK_ATTRIBS_CONNECTOR ==
    << Attr("id", 4, TRUE, "str", None, {}, ""),
       Attr("format", 4, FALSE, "str", None, {}, ""),
       Attr("data", 4, FALSE, "list", None, {}, "ACT_DATA") >>

TPSDK_ATTRIBS_CATEGORY ==
    << Attr("id", 1, TRUE, "str", None, {}, ""),
       Attr("name", 1, TRUE, "str", None, {}, ""),
       Attr("actions", 1, FALSE, "list", None, {}, "ACTION"),
       Attr("connectors", 4, FALSE, "list", None, {}, "CONNECTOR"),
       Attr("states", 1, FALSE, "list", None, {}, "STATE"),
       Attr("events", 1, FALSE, "list", None, {}, "EVENT") >>

\* the root table; dc and ds are the current contents of the two list objects
\* the table holds as defaults
TPSDK_ATTRIBS_ROOT(dc, ds) ==
    << Attr("sdk", 1, TRUE, "int", IntV(TPSDK_DEFAULT_VERSION),
            {IntV(1), IntV(2), IntV(3), IntV(4)}, ""),
       Attr("name", 1, TRUE, "str", None, {}, ""),
       Attr("categories", 1, TRUE, "list", ListV(dc), {}, "CATEGORY"),
       Attr("settings", 3, FALSE, "list", ListV(ds), {}, "SETTINGS") >>

\* adata.get('l') / data.get('l', {}) by name; "" is the empty table
Table(name) ==
    CASE name = "CATEGORY"  -> TPSDK_ATTRIBS_CATEGORY
      [] name = "ACTION"    -> TPSDK_ATTRIBS_ACTION
      [] name = "CONNECTOR" -> TPSDK_ATTRIBS_CONNECTOR
      [] name = "STATE"     -> TPSDK_ATTRIBS_STATE
      [] name = "EVENT"     -> TPSDK_ATTRIBS_EVENT
      [] name = "SETTINGS"  -> TPSDK_ATTRIBS_SETTINGS
      [] name = "ACT_DATA"  -> TPSDK_ATTRIBS_ACT_DATA
      [] OTHER              -> <<>>

\* table.get(k): the entry, or NoAttr (falsy)
NoAttr == Attr("", 0, FALSE, "none", None, {}, "")

TableGet(table, k) ==
    IF \E n \in 1..Len(table) : table[n].k = k
    THEN table[CHOOSE n \in 1..Len(table) : table[n].k = k]
    ELSE NoAttr

\* value in choices; True == 1 and False == 0
InChoices(value, choices) ==
    \/ value \in choices
    \/ value.t = "bool" /\ IntV(AsInt(value)) \in choices

(***************************************************************************)
(* validateAttribValue                                                     *)
(***************************************************************************)
\* The result: ok (the return value), msgs (the messages added), exc (the
\* exception raised, "" for none).
Res(ok, msgs, exc) == [ok |-> ok, msgs |-> msgs, exc |-> exc]

validateAttribValue(key, value, attrib_data, sdk_v, path) ==
    LET keypath == _keyPath(path, key) IN
    IF value = None
    THEN Res(FALSE, IF attrib_data.r THEN <<Msg("missing", keypath)>> ELSE <<>>, "")
    ELSE IF ~IsInstance(value, attrib_data.t)
    THEN Res(FALSE, <<Msg("type", keypath)>>, "")
    ELSE IF ~Orderable(sdk_v)
    THEN Res(FALSE, <<>>, "TypeError")
    ELSE IF AsInt(sdk_v) < attrib_data.v
    THEN Res(FALSE, <<Msg("version", keypath)>>, "")
    ELSE IF attrib_data.c # {} /\ ~InChoices(value, attrib_data.c)
    THEN Res(FALSE, <<Msg("value", keypath)>>, "")
    ELSE Res(TRUE, <<>>, "")

(***************************************************************************)
(* _replaceFormatTokens                                                    *)
(***************************************************************************)
Digits == {"0", "1", "2", "3", "4", "5", "6", "7", "8", "9"}

Letters == {"a", "b", "c", "d", "e", "g", "o", "t", "x", "y", "z", "A", "B"}

\* \w
WordChar(c) == c \in Letters \cup Digits \cup {"_"}

DigitVal(c) == CHOOSE n \in 0..9 : IdxStr(n) = c

\* str.isdigit()
IsDigit(s) == s # <<>> /\ \A n \in 1..Len(s) : s[n] \in Digits

RECURSIVE ToInt(_)
\* int(s) of a digit string
ToInt(s) ==
    IF s = <<>> THEN 0
    ELSE 10 * ToInt(SubSeq(s, 1, Len(s) - 1)) + DigitVal(s[Len(s)])

\* did.rsplit(".", 1)[-1]
LastSegment(s) ==
    LET dots == {n \in 1..Len(s) : s[n] = "."} IN
    IF dots = {} THEN s
    ELSE SubSeq(s, (CHOOSE n \in dots : \A m \in dots : m <= n) + 1, Len(s))

\* r'\$\[(\w+)\]' matches f[p..e] (1-based, p the "$" and e the "]")
IsTokenAt(f, p, e) ==
    /\ p + 3 <= e /\ e <= Len(f)
    /\ f[p] = "$" /\ f[p + 1] = "[" /\ f[e] = "]"
    /\ \A q \in (p + 2)..(e - 1) : WordChar(f[q])

NoMatch == [found |-> FALSE, start |-> 0, end |-> 0, tok |-> <<>>]

\* rx.search(f, b): the leftmost match starting at or after offset b;
\* start and end are m.start() and m.end(), tok is m.group(1)
Search(f, b) ==
    LET starts == {p \in (b + 1)..Len(f) : \E e \in 1..Len(f) : IsTokenAt(f, p, e)} IN
    IF starts = {} THEN NoMatch
    ELSE LET p == CHOOSE q \in starts : \A r \in starts : q <= r
             e == CHOOSE q \in 1..Len(f) : IsTokenAt(f, p, q)
         IN  [found |-> TRUE, start |-> p - 1, end |-> e, tok |-> SubSeq(f, p + 2, e - 1)]

RECURSIVE DataIdsFrom(_, _, _)
DataIdsFrom(data, n, ids) ==
    IF n > Len(data) THEN ids
    ELSE LET did == Get(data[n].d, "id") IN
         DataIdsFrom(data, n + 1,
                     IF Falsy(did) THEN ids
                     ELSE Put(ids, LastSegment(did.s), did.s))

\* data_ids after the loop over d.get('data'): short name -> full id, a dict
DataIds(data) == DataIdsFrom(data, 1, <<>>)

\* list(data_ids.values())[i], i counted from 0
Positional(ids, i) == ids[i + 1].v

\* RewriteIter with begin = m.start() after a replacement
RewriteIterRescan(f, m, ids) ==
    LET idx == m.tok
        byName == HasKey(ids, idx)
        byPos == ~byName /\ IsDigit(idx) /\ ToInt(idx) - 1 >= 0 /\ ToInt(idx) - 1 < Len(ids)
        val == IF byName THEN Get(ids, idx) ELSE Positional(ids, ToInt(idx) - 1)
    IN  IF byName \/ byPos
        THEN [fmt |-> SubSeq(f, 1, m.start) \o <<"{", "$">> \o val \o <<"$", "}">>
                        \o SubSeq(f, m.end + 1, Len(f)),
              begin |-> m.start]
        ELSE [fmt |-> f, begin |-> m.end]

\* one iteration of the while loop, m being the match found
RewriteIter(f, m, ids) ==
    LET idx == m.tok
        byName == HasKey(ids, idx)
        byPos == ~byName /\ IsDigit(idx) /\ ToInt(idx) - 1 >= 0 /\ ToInt(idx) - 1 < Len(ids)
        val == IF byName THEN Get(ids, idx) ELSE Positional(ids, ToInt(idx) - 1)
    IN  IF byName \/ byPos
        THEN [fmt |-> SubSeq(f, 1, m.start) \o <<"{", "$">> \o val \o <<"$", "}">>
                        \o SubSeq(f, m.end + 1, Len(f)),
              begin |-> m.start + Len(val) + 4]
        ELSE [fmt |-> f, begin |-> m.end]

RECURSIVE RewriteLoop(_, _, _)
\* the while loop run to its end: the final fmt
RewriteLoop(f, b, ids) ==
    LET m == Search(f, b) IN
    IF ~m.found THEN f
    ELSE LET it == RewriteIter(f, m, ids) IN RewriteLoop(it.fmt, it.begin, ids)

\* the loop body of _replaceFormatTokens for one item d (a dict)
ReplaceFormatTokensIn(d) ==
    IF ~HasKey(d, "format") \/ ~HasKey(d, "data") THEN d
    ELSE LET ids == DataIds(Get(d, "data").l) IN
         IF ids = <<>> THEN d
         ELSE Put(d, "format", StrV(RewriteLoop(Get(d, "format").s, 0, ids)))

_replaceFormatTokens(items) ==
    [n \in 1..Len(items) |->
        IF items[n].t = "dict" THEN DictV(ReplaceFormatTokensIn(items[n].d)) ELSE items[n]]

(***************************************************************************)
(* _dictFromItem, _arrayFromDict                                           *)
(***************************************************************************)
\* The result of a builder: ret (the value returned) and msgs (the messages
\* added, in order).
Built(ret, msgs) == [ret |-> ret, msgs |-> msgs]

ListOf(b) == Built(ListV(b.ret), b.msgs)

\* Admits without its clause for an item that has no 'category'
AdmitsNamedOnly(item, category) ==
    \/ Falsy(category)
    \/ Get(item, "category") = category

\* the condition of _arrayFromDict that admits an item to the list
Admits(item, category) ==
    \/ Falsy(category)
    \/ Falsy(Get(item, "category"))
    \/ Get(item, "category") = category

RECURSIVE DictLoop(_, _, _, _, _, _, _)
RECURSIVE ArrayLoop(_, _, _, _, _, _, _, _)

\* the end of _arrayFromDict: the items of "actions" and "connectors" have
\* their format tokens replaced
Finished(b, path) ==
    IF path \in {<<Seg("actions")>>, <<Seg("connectors")>>}
    THEN Built(_replaceFormatTokens(b.ret), b.msgs)
    ELSE b

\* _arrayFromDict(d, table, sdk_v, category, path); d is the dict id -> item
_arrayFromDict(d, table, sdk_v, category, path) ==
    Finished(ArrayLoop(d, table, sdk_v, category, path, 1, <<>>, <<>>), path)

\* ret.append(b), b being what _dictFromItem built from the n-th item
ArrayAppend(d, table, sdk_v, category, path, n, ret, msgs, b) ==
    ArrayLoop(d, table, sdk_v, category, path, n + 1,
              Append(ret, DictV(b.ret)), msgs \o b.msgs)

\* the for loop of _arrayFromDict from the n-th item on
ArrayLoop(d, table, sdk_v, category, path, n, ret, msgs) ==
    IF n > Len(d) THEN Built(ret, msgs)
    ELSE IF Admits(d[n].v.d, category)
    THEN ArrayAppend(d, table, sdk_v, category, path, n, ret, msgs,
                     DictLoop(d[n].v.d, table, sdk_v, Bracket(path, d[n].k), 1, <<>>, <<>>))
    ELSE ArrayLoop(d, table, sdk_v, category, path, n + 1, ret, msgs)

\* item.get(k), or the table's default when that is None
EffectiveValue(item, data) ==
    IF Get(item, data.k) = None THEN data.d ELSE Get(item, data.k)

\* a dict given for a list attribute is built into the list of its items
Expanded(v, data, sdk_v, path) ==
    IF v.t = "dict" /\ data.t = "list"
    THEN ListOf(_arrayFromDict(v.d, Table(data.l), sdk_v, None, _keyPath(path, data.k)))
    ELSE Built(v, <<>>)

\* Include without the test of what validateAttribValue returned
IncludeAlways(item, table, sdk_v, path, n, ret, msgs, ev, r) ==
    DictLoop(item, table, sdk_v, path, n + 1,
             Put(ret, table[n].k, ev.ret),
             msgs \o ev.msgs \o r.msgs)

\* ret[k] = v if validateAttribValue returned True (r), v being ev.ret
Include(item, table, sdk_v, path, n, ret, msgs, ev, r) ==
    DictLoop(item, table, sdk_v, path, n + 1,
             IF r.ok THEN Put(ret, table[n].k, ev.ret) ELSE ret,
             msgs \o ev.msgs \o r.msgs)

Validated(item, table, sdk_v, path, n, ret, msgs, ev) ==
    Include(item, table, sdk_v, path, n, ret, msgs, ev,
            validateAttribValue(table[n].k, ev.ret, table[n], sdk_v, path))

\* the for loop of _dictFromItem from the n-th table entry on
DictLoop(item, table, sdk_v, path, n, ret, msgs) ==
    IF n > Len(table) THEN Built(ret, msgs)
    ELSE Validated(item, table, sdk_v, path, n, ret, msgs,
                   Expanded(EffectiveValue(item, table[n]), table[n], sdk_v, path))

_dictFromItem(item, table, sdk_v, path) ==
    DictLoop(item, table, sdk_v, path, 1, <<>>, <<>>)

(***************************************************************************)
(* _validateDefinitionDict, _validateDefinitionArray                       *)
(***************************************************************************)
\* The result of a walk: msgs (the messages added, in order) and exc (the
\* exception that ended it, "" when it ran to its end).
Walk(msgs, exc) == [msgs |-> msgs, exc |-> exc]

RECURSIVE KeysLoop(_, _, _, _, _, _)
RECURSIVE ArrayWalk(_, _, _, _, _, _)

\* the second loop of _validateDefinitionDict: the required keys d lacks
RequiredScan(d, table, path) ==
    LET missing(n) == table[n].r /\ ~HasKey(d, table[n].k)
        F[n \in 0..Len(table)] ==
            IF n = 0 THEN <<>>
            ELSE IF missing(n)
                 THEN Append(F[n - 1], Msg("missing", _keyPath(path, table[n].k)))
                 ELSE F[n - 1]
    IN  F[Len(table)]

\* UnknownAttrib with a break in the place of its continue
UnknownAttribBreak(keypath) ==
    [msgs |-> <<Msg("unknown", keypath)>>, next |-> "break"]

\* the branch of the first loop for a key the table lacks: the messages it
\* adds and how the loop goes on
UnknownAttrib(keypath) ==
    [msgs |-> <<Msg("unknown", keypath)>>, next |-> "continue"]

\* FlaggedAttrib with a break in the place of its continue
FlaggedAttribBreak(r) == [msgs |-> r.msgs, next |-> "break"]

\* the branch of the first loop for a key validateAttribValue returned False
\* for (r): the messages added and how the loop goes on
FlaggedAttrib(r) == [msgs |-> r.msgs, next |-> "continue"]

\* the first loop of _validateDefinitionDict from the n-th key of d on
KeysLoop(d, table, sdk_v, path, n, msgs) ==
    IF n > Len(d) THEN Walk(msgs, "")
    ELSE LET k == d[n].k
             v == d[n].v
             adata == TableGet(table, k)
             keypath == _keyPath(path, k)
         IN  IF adata = NoAttr
             THEN LET u == UnknownAttrib(keypath) IN
                  IF u.next = "continue"
                  THEN KeysLoop(d, table, sdk_v, path, n + 1, msgs \o u.msgs)
                  ELSE Walk(msgs \o u.msgs, "")
             ELSE LET r == validateAttribValue(k, v, adata, sdk_v, path) IN
                  IF r.exc # "" THEN Walk(msgs \o r.msgs, r.exc)
                  ELSE IF ~r.ok
                  THEN LET f == FlaggedAttrib(r) IN
                       IF f.next = "continue"
                       THEN KeysLoop(d, table, sdk_v, path, n + 1, msgs \o f.msgs)
                       ELSE Walk(msgs \o f.msgs, "")
                  ELSE IF v.t = "list" /\ adata.l # ""
                  THEN LET a == ArrayWalk(v.l, Table(adata.l), sdk_v, keypath, 1, <<>>) IN
                       IF a.exc # "" THEN Walk(msgs \o a.msgs, a.exc)
                       ELSE KeysLoop(d, table, sdk_v, path, n + 1, msgs \o a.msgs)
                  ELSE KeysLoop(d, table, sdk_v, path, n + 1, msgs)

_validateDefinitionDict(d, table, sdk_v, path) ==
    LET w == KeysLoop(d, table, sdk_v, path, 1, <<>>) IN
    IF w.exc # "" THEN w
    ELSE Walk(w.msgs \o RequiredScan(d, table, path), "")

\* the loop of _validateDefinitionArray from the n-th member on (i = n - 1)
ArrayWalk(a, table, sdk_v, path, n, msgs) ==
    IF n > Len(a) THEN Walk(msgs, "")
    ELSE IF a[n].t = "dict"
    THEN LET w == _validateDefinitionDict(a[n].d, table, sdk_v, Bracket(path, IdxStr(n - 1))) IN
         IF w.exc # "" THEN Walk(msgs \o w.msgs, w.exc)
         ELSE ArrayWalk(a, table, sdk_v, path, n + 1, msgs \o w.msgs)
    ELSE ArrayWalk(a, table, sdk_v, path, n + 1, Append(msgs, Msg("member", path)))

_validateDefinitionArray(a, table, sdk_v, path) ==
    ArrayWalk(a, table, sdk_v, path, 1, <<>>)

\* the body of validateDefinitionObject after _clearMessages()
ValidateObjectWalk(data, dc, ds) ==
    LET sdk_v == GetOr(data, "sdk", IntV(TPSDK_DEFAULT_VERSION)) IN
    _validateDefinitionDict(data, TPSDK_ATTRIBS_ROOT(dc, ds), sdk_v, <<>>)

(***************************************************************************)
(* generateDefinitionFromDeclaration                                       *)
(***************************************************************************)
\* A declaration: the arguments info, categories and the keyword arguments,
\* each a dict.
Decl(info, categories, settings, actions, states, events, connectors) ==
    [info |-> info, categories |-> categories, settings |-> settings,
     actions |-> actions, states |-> states, events |-> events,
     connectors |-> connectors]

NoDecl == Decl(<<>>, <<>>, <<>>, <<>>, <<>>, <<>>, <<>>)

\* category[...] = ... for actions, states, events and connectors
CategoryObject(withConn, c, a, st, ev, co) ==
    Built(DictV(IF withConn
                THEN Put(Put(Put(Put(c.ret, "actions", ListV(a.ret)),
                                 "states", ListV(st.ret)),
                             "events", ListV(ev.ret)),
                         "connectors", ListV(co.ret))
                ELSE Put(Put(Put(c.ret, "actions", ListV(a.ret)),
                             "states", ListV(st.ret)),
                         "events", ListV(ev.ret))),
          c.msgs \o a.msgs \o st.msgs \o ev.msgs \o co.msgs)

\* the body of the loop over categories.items() up to the append
BuildCategory(decl, cat, data, tgt_sdk_v) ==
    CategoryObject(
        AsInt(tgt_sdk_v) >= 4,
        _dictFromItem(data, TPSDK_ATTRIBS_CATEGORY, tgt_sdk_v,
                      Bracket(<<Seg("category")>>, cat)),
        _arrayFromDict(decl.actions, TPSDK_ATTRIBS_ACTION, tgt_sdk_v,
                       KeyStr(cat), <<Seg("actions")>>),
        _arrayFromDict(decl.states, TPSDK_ATTRIBS_STATE, tgt_sdk_v,
                       KeyStr(cat), <<Seg("states")>>),
        _arrayFromDict(decl.events, TPSDK_ATTRIBS_EVENT, tgt_sdk_v,
                       KeyStr(cat), <<Seg("events")>>),
        IF AsInt(tgt_sdk_v) >= 4
        THEN _arrayFromDict(decl.connectors, TPSDK_ATTRIBS_CONNECTOR, tgt_sdk_v,
                            KeyStr(cat), <<Seg("connectors")>>)
        ELSE Built(<<>>, <<>>))

RECURSIVE CategoriesLoop(_, _, _, _, _, _)

\* entry['categories'].append(category); a KeyError when entry has no such key
CategoryAppend(decl, tgt_sdk_v, hasList, n, ret, msgs, b) ==
    IF hasList
    THEN CategoriesLoop(decl, tgt_sdk_v, hasList, n + 1, Append(ret, b.ret), msgs \o b.msgs)
    ELSE [ret |-> ret, msgs |-> msgs \o b.msgs, exc |-> "KeyError"]

\* the loop over categories.items() from the n-th category on: the category
\* objects appended, the messages added, the exception that ended it
CategoriesLoop(decl, tgt_sdk_v, hasList, n, ret, msgs) ==
    IF n > Len(decl.categories) THEN [ret |-> ret, msgs |-> msgs, exc |-> ""]
    ELSE CategoryAppend(decl, tgt_sdk_v, hasList, n, ret, msgs,
                        BuildCategory(decl, decl.categories[n].k, decl.categories[n].v.d,
                                      tgt_sdk_v))

\* The result of a top-level call: outcome ("returned" or the exception), ret,
\* msgs (the messages added after _clearMessages, "cleared" telling whether it
\* was reached) and the contents of the two default list objects afterwards.
Call(out, ret, cleared, msgs, dc, ds) ==
    [outcome |-> out, ret |-> ret, cleared |-> cleared, msgs |-> msgs,
     dc |-> dc, ds |-> ds]

\* the version the root is built with, before the target version is known
RootBuildVersion == IntV(TPSDK_DEFAULT_VERSION)

\* list += more, for the list under key k of entry (no key: entry as it is)
Extended(e, k, more) ==
    IF HasKey(e, k) THEN Put(e, k, ListV(Get(e, k).l \o more)) ELSE e

\* "Add Settings to root", and the return; e and dc1 are entry and the
\* categories default after the loop, st the settings built
AddSettings(decl, tgt_sdk_v, e, msgs, dc1, ds, st) ==
    IF AsInt(tgt_sdk_v) < 3
    THEN Call("returned", DictV(e), TRUE, msgs, dc1, ds)
    ELSE IF ~HasKey(e, "settings")
    THEN Call("KeyError", None, TRUE, msgs, dc1, ds)
    ELSE Call("returned", DictV(Extended(e, "settings", st.ret)), TRUE, msgs \o st.msgs, dc1,
              \* entry['settings'] is the table's list object unless info gave one
              IF Get(decl.info, "settings") = None THEN ds \o st.ret ELSE ds)

\* the part after the loop over the categories, cats being what it did
AfterCategories(decl, dc, ds, root, tgt_sdk_v, cats) ==
    IF cats.exc # ""
    THEN Call(cats.exc, None, TRUE, root.msgs \o cats.msgs, dc, ds)
    ELSE AddSettings(decl, tgt_sdk_v, Extended(root.ret, "categories", cats.ret),
                     root.msgs \o cats.msgs,
                     \* entry['categories'] is the table's list object unless info gave one
                     IF Get(decl.info, "categories") = None THEN dc \o cats.ret ELSE dc,
                     ds,
                     IF AsInt(tgt_sdk_v) >= 3 /\ HasKey(root.ret, "settings")
                     THEN _arrayFromDict(decl.settings, TPSDK_ATTRIBS_SETTINGS, tgt_sdk_v,
                                         None, <<Seg("settings")>>)
                     ELSE Built(<<>>, <<>>))

\* the part after the root is built: tgt_sdk_v = entry['sdk'], a KeyError
\* when the built root has no 'sdk'
AfterRoot(decl, dc, ds, root) ==
    IF ~HasKey(root.ret, "sdk")
    THEN Call("KeyError", None, TRUE, root.msgs, dc, ds)
    ELSE AfterCategories(decl, dc, ds, root, Get(root.ret, "sdk"),
                         CategoriesLoop(decl, Get(root.ret, "sdk"),
                                        HasKey(root.ret, "categories"), 1, <<>>, <<>>))

generateDefinitionFromDeclaration(decl, dc, ds) ==
    AfterRoot(decl, dc, ds,
              _dictFromItem(decl.info, TPSDK_ATTRIBS_ROOT(dc, ds), RootBuildVersion,
                            <<Seg("info")>>))

\* generateDefinitionFromModule; the plugin's variables are a declaration, a
\* variable the module lacks being the empty dict
generateDefinitionFromModule(plugin, dc, ds) ==
    IF plugin.info = <<>> \/ plugin.categories = <<>>
    THEN Call("ImportError", None, FALSE, <<>>, dc, ds)
    ELSE generateDefinitionFromDeclaration(plugin, dc, ds)

\* generateDefinitionFromScript; a script is how reading and executing it end
\* ("unreadable", "throws", "ok") and the variables it leaves
generateDefinitionFromScript(script, dc, ds) ==
    IF script.runs = "unreadable" THEN Call("OSError", None, FALSE, <<>>, dc, ds)
    ELSE IF script.runs = "throws" THEN Call("ImportError", None, FALSE, <<>>, dc, ds)
    ELSE generateDefinitionFromModule(script.plugin, dc, ds)

(***************************************************************************)
(* validateDefinitionObject, validateDefinitionString, validateDefinitionFile *)
(***************************************************************************)
\* validateDefinitionObject without its _clearMessages()
validateDefinitionObjectNoClear(data, dc, ds) ==
    LET w == ValidateObjectWalk(data, dc, ds) IN
    IF w.exc # "" THEN Call(w.exc, None, FALSE, w.msgs, dc, ds)
    ELSE Call("returned", BoolV(Len(w.msgs) = 0), FALSE, w.msgs, dc, ds)

validateDefinitionObject(data, dc, ds) ==
    LET w == ValidateObjectWalk(data, dc, ds) IN
    IF w.exc # "" THEN Call(w.exc, None, TRUE, w.msgs, dc, ds)
    ELSE Call("returned", BoolV(Len(w.msgs) = 0), TRUE, w.msgs, dc, ds)

\* a JSON text is whether json.loads accepts it and the object it decodes to
validateDefinitionString(text, dc, ds) ==
    IF ~text.decodes THEN Call("JSONDecodeError", None, FALSE, <<>>, dc, ds)
    ELSE validateDefinitionObject(text.obj, dc, ds)

\* a file is whether open() finds it and the JSON text it holds
validateDefinitionFile(file, dc, ds) ==
    IF ~file.opens THEN Call("OSError", None, FALSE, <<>>, dc, ds)
    ELSE IF ~file.text.decodes THEN Call("JSONDecodeError", None, FALSE, <<>>, dc, ds)
    ELSE validateDefinitionObject(file.text.obj, dc, ds)

(***************************************************************************)
(* The inputs the calls are given                                          *)
(***************************************************************************)
\* the most category objects and settings the two default lists are let grow to
MaxCarried == 2

Str1(c) == StrV(<<c>>)

\* TP_PLUGIN_INFO with the given 'sdk' (None: no 'sdk' key)
InfoOf(sdk) ==
    IF sdk = None THEN <<KV("name", Str1("p"))>>
    ELSE <<KV("sdk", sdk), KV("name", Str1("p"))>>

InfoNoName == <<KV("sdk", IntV(4))>>

CatItem(c) == KV(c, DictV(<<KV("id", Str1(c)), KV("name", Str1(c))>>))

\* an item of actions/states/events/connectors with the given id, 'category'
\* value (None: no 'category' key) and further attributes
Item(key, id, category, more) ==
    KV(key, DictV((IF category = None THEN <<>> ELSE <<KV("category", category)>>)
                  \o <<KV("id", id)>> \o more))

Id_ax == <<"a", ".", "x">>

Id_by == <<"b", ".", "y">>

\* "go $[x] $[2]"
Fmt_x2 == <<"g", "o", " ", "$", "[", "x", "]", " ", "$", "[", "2", "]">>

DataXY ==
    DictV(<< KV("d1", DictV(<<KV("id", StrV(Id_ax))>>)),
             KV("d2", DictV(<<KV("id", StrV(Id_by))>>)) >>)

\* settings, actions, states, events, connectors
Bundle(st, a, s, e, c) ==
    [settings |-> st, actions |-> a, states |-> s, events |-> e, connectors |-> c]

OneSetting == <<KV("s1", DictV(<<KV("name", Str1("s"))>>))>>

EmptyBundle == Bundle(<<>>, <<>>, <<>>, <<>>, <<>>)

\* every item names its category
BundleNamed ==
    Bundle(OneSetting,
           <<Item("a1", Str1("a"), Str1("A"), <<>>), Item("a2", Str1("b"), Str1("B"), <<>>)>>,
           <<Item("s1", Str1("c"), Str1("B"), <<>>)>>,
           <<>>,
           <<Item("c1", Str1("d"), Str1("A"), <<>>)>>)

\* items without a 'category' beside one that names its category
BundleUncategorised ==
    Bundle(<<>>,
           <<Item("a1", Str1("a"), None, <<>>), Item("a2", Str1("b"), Str1("B"), <<>>)>>,
           <<>>,
           <<Item("e1", Str1("e"), None, <<>>)>>,
           <<>>)

\* an attribute of a later SDK version, a format with its data
BundleGated ==
    Bundle(OneSetting,
           <<Item("a1", Str1("a"), Str1("A"),
                  <<KV("format", StrV(Fmt_x2)), KV("hasHoldFunctionality", BoolV(TRUE)),
                    KV("data", DataXY)>>)>>,
           <<>>, <<>>, <<>>)

\* an id of the wrong type, an item of a category not declared
BundleBadId ==
    Bundle(<<>>,
           <<Item("a1", IntV(1), Str1("B"), <<>>), Item("a2", Str1("b"), Str1("z"), <<>>)>>,
           <<>>, <<>>, <<>>)

OneCategory == <<CatItem("A")>>

TwoCategories == <<CatItem("A"), CatItem("B")>>

DeclOf(info, cats, b) ==
    Decl(info, cats, b.settings, b.actions, b.states, b.events, b.connectors)

\* 'sdk' values: none, valid ones, one outside the allowed values, one of the
\* wrong type
SdkInputs == {None, IntV(2), IntV(3), IntV(4), IntV(9), Str1("4")}

Declarations ==
    {DeclOf(InfoOf(sdk), OneCategory, EmptyBundle) : sdk \in SdkInputs}
    \cup {DeclOf(InfoNoName, OneCategory, EmptyBundle)}
    \cup {DeclOf(InfoOf(IntV(sdk)), TwoCategories, BundleNamed) : sdk \in {2, 3, 4}}
    \cup {DeclOf(InfoOf(IntV(sdk)), TwoCategories, BundleUncategorised) : sdk \in {2, 4}}
    \cup {DeclOf(InfoOf(IntV(sdk)), TwoCategories, BundleGated) : sdk \in {2, 3, 4}}
    \cup {DeclOf(InfoOf(IntV(4)), TwoCategories, BundleBadId)}

\* loaded modules: a declaration each, or one lacking a required variable
Modules ==
    { DeclOf(InfoOf(IntV(4)), <<CatItem("A")>>, EmptyBundle),
      DeclOf(InfoNoName, <<CatItem("A")>>, EmptyBundle),
      DeclOf(<<>>, <<CatItem("A")>>, EmptyBundle),
      DeclOf(InfoOf(IntV(4)), <<>>, EmptyBundle) }

Scripts ==
    { [runs |-> "unreadable", plugin |-> NoDecl],
      [runs |-> "throws", plugin |-> NoDecl] }
    \cup {[runs |-> "ok", plugin |-> m] : m \in Modules}

\* a decoded entry.tp that validates without a message
ActionM ==
    DictV(<< KV("id", Str1("a")), KV("type", StrV(S_communicate)),
             KV("data", ListV(<<DictV(<<KV("id", StrV(Id_ax)), KV("type", StrV(S_text))>>)>>)) >>)

CategoryM(actions) ==
    DictV(<< KV("id", Str1("A")), KV("name", Str1("A")), KV("actions", ListV(actions)),
             KV("states", ListV(<<>>)) >>)

ManifestOf(sdk, categories) ==
    << KV("sdk", sdk), KV("name", Str1("p")), KV("categories", ListV(categories)),
       KV("settings", ListV(<<>>)) >>

M0 == ManifestOf(IntV(4), <<CategoryM(<<ActionM>>)>>)

\* an action whose id has the wrong type
BadActionM == DictV(<<KV("id", IntV(1)), KV("type", StrV(S_communicate))>>)

\* that action, then a member that is no dict
MBadNested == ManifestOf(IntV(4), <<CategoryM(<<BadActionM, Str1("m")>>)>>)

\* del d[k]
Drop(d, k) ==
    LET keep == {n \in 1..Len(d) : d[n].k # k}
        F[n \in 0..Len(d)] ==
            IF n = 0 THEN <<>>
            ELSE IF n \in keep THEN Append(F[n - 1], d[n]) ELSE F[n - 1]
    IN  F[Len(d)]

\* d with the pair kv put in after its first p pairs
InsertAt(d, p, kv) == SubSeq(d, 1, p) \o <<kv>> \o SubSeq(d, p + 1, Len(d))

UnknownKV == KV("foo", IntV(1))

RequiredRoot ==
    {TPSDK_ATTRIBS_ROOT(<<>>, <<>>)[n].k : n \in {m \in 1..4 : TPSDK_ATTRIBS_ROOT(<<>>, <<>>)[m].r}}

\* manifests that lack one required root attribute: no key, or a null value
MissingOne(k) == {Drop(M0, k), Put(M0, k, None)}

\* manifests with one unknown key, at every place of the iteration order
UnknownBases == {M0, Put(M0, "sdk", Str1("4")), MBadNested, Drop(M0, "name")}

WithUnknown == UNION {{InsertAt(b, p, UnknownKV) : p \in 0..Len(b)} : b \in UnknownBases}

\* an unknown key in a category object, before its nested list
MUnknownNested ==
    ManifestOf(IntV(4),
               <<DictV(InsertAt(CategoryM(<<BadActionM>>).d, 2, UnknownKV))>>)

\* 'settings' of a later version than 'sdk', with a member that has
\* deviations, before a 'name' of the wrong type and the categories
MFlaggedFirst ==
    << KV("sdk", IntV(2)),
       KV("settings", ListV(<<DictV(<<KV("name", IntV(1))>>)>>)),
       KV("name", IntV(1)),
       KV("categories", ListV(<<CategoryM(<<BadActionM>>)>>)) >>

\* in a category, 'connectors' of a later version than 'sdk', with such a
\* member, before the actions
MGatedConnectors ==
    ManifestOf(IntV(3),
               <<DictV(<< KV("id", Str1("A")), KV("name", Str1("A")),
                          KV("connectors", ListV(<<DictV(<<KV("id", IntV(1))>>)>>)),
                          KV("actions", ListV(<<BadActionM>>)) >>)>>)

\* 'categories' of the wrong type
MWrongTypeCategories == Put(M0, "categories", Str1("c"))

Manifests ==
    {M0, MBadNested, MUnknownNested, MFlaggedFirst, MGatedConnectors, MWrongTypeCategories}
    \cup UNION {MissingOne(k) : k \in RequiredRoot}
    \cup WithUnknown
    \cup {Put(M0, "sdk", v) : v \in {Str1("4"), IntV(9), IntV(2), IntV(3)}}

JsonTexts ==
    {[decodes |-> FALSE, obj |-> <<>>]}
    \cup {[decodes |-> TRUE, obj |-> m] : m \in {M0, MBadNested, Drop(M0, "name")}}

Files ==
    {[opens |-> FALSE, text |-> [decodes |-> FALSE, obj |-> <<>>]]}
    \cup {[opens |-> TRUE, text |-> t] : t \in JsonTexts}

(***************************************************************************)
(* The top-level calls                                                     *)
(***************************************************************************)
GenerateOps ==
    {"generateDefinitionFromDeclaration", "generateDefinitionFromModule",
     "generateDefinitionFromScript"}

ValidateOps ==
    {"validateDefinitionObject", "validateDefinitionString", "validateDefinitionFile"}

\* no builder is called on its own
BuildIdle ==
    /\ bItem = <<>>
    /\ bTable = ""
    /\ bSdk = None
    /\ bCategory = None
    /\ bRet = None
    /\ bMsgs = <<>>
    /\ bpc = "idle"

Init ==
    /\ g_messages = <<>>
    /\ defCategories = <<>>
    /\ defSettings = <<>>
    /\ lastOp = "none"
    /\ lastDecl = NoDecl
    /\ lastData = <<>>
    /\ outcome = "none"
    /\ entry = None
    /\ valid = FALSE
    /\ produced = <<>>
    /\ fromGen = FALSE
    /\ genProduced = <<>>
    /\ fmt = <<>>
    /\ begin = 0
    /\ fdata = <<>>
    /\ fsrc = <<>>
    /\ fpc = "idle"
    /\ BuildIdle

\* the default lists stay within the bound
Fits(r) == Len(r.dc) <= MaxCarried /\ Len(r.ds) <= MaxCarried

\* the state after the call op that ended as r (lastOp aside)
After(op, decl, data, fg, r) ==
    /\ Fits(r)
    /\ g_messages' = IF r.cleared THEN r.msgs ELSE g_messages
    /\ produced' = r.msgs
    /\ defCategories' = r.dc
    /\ defSettings' = r.ds
    /\ lastDecl' = decl
    /\ lastData' = data
    /\ outcome' = r.outcome
    /\ entry' = IF op \in GenerateOps THEN r.ret ELSE None
    /\ valid' = IF op \in ValidateOps /\ r.outcome = "returned" THEN r.ret.b ELSE FALSE
    /\ fromGen' = fg
    /\ genProduced' = IF fg THEN produced ELSE <<>>
    /\ UNCHANGED fmtVars
    /\ UNCHANGED buildVars

GenFromDeclaration ==
    \E decl \in Declarations :
        /\ lastOp' = "generateDefinitionFromDeclaration"
        /\ After("generateDefinitionFromDeclaration", decl, <<>>, FALSE,
                 generateDefinitionFromDeclaration(decl, defCategories, defSettings))

GenFromModule ==
    \E plugin \in Modules :
        /\ lastOp' = "generateDefinitionFromModule"
        /\ After("generateDefinitionFromModule", plugin, <<>>, FALSE,
                 generateDefinitionFromModule(plugin, defCategories, defSettings))

GenFromScript ==
    \E script \in Scripts :
        /\ lastOp' = "generateDefinitionFromScript"
        /\ After("generateDefinitionFromScript", script.plugin, <<>>, FALSE,
                 generateDefinitionFromScript(script, defCategories, defSettings))

\* the caller validates a decoded object
ValidateObject ==
    \E data \in Manifests :
        /\ lastOp' = "validateDefinitionObject"
        /\ After("validateDefinitionObject", NoDecl, data, FALSE,
                 validateDefinitionObject(data, defCategories, defSettings))

\* the caller validates the dict the generate call before has just returned
ValidateGenerated ==
    /\ lastOp \in GenerateOps
    /\ outcome = "returned"
    /\ lastOp' = "validateDefinitionObject"
    /\ After("validateDefinitionObject", lastDecl, entry.d, TRUE,
             validateDefinitionObject(entry.d, defCategories, defSettings))

ValidateString ==
    \E text \in JsonTexts :
        /\ lastOp' = "validateDefinitionString"
        /\ After("validateDefinitionString", NoDecl, text.obj, FALSE,
                 validateDefinitionString(text, defCategories, defSettings))

ValidateFile ==
    \E file \in Files :
        /\ lastOp' = "validateDefinitionFile"
        /\ After("validateDefinitionFile", NoDecl, file.text.obj, FALSE,
                 validateDefinitionFile(file, defCategories, defSettings))

Next ==
    \/ GenFromDeclaration
    \/ GenFromModule
    \/ GenFromScript
    \/ ValidateObject
    \/ ValidateGenerated
    \/ ValidateString
    \/ ValidateFile

Spec == Init /\ [][Next]_vars

(***************************************************************************)
(* _replaceFormatTokens on one entry, iteration by iteration               *)
(***************************************************************************)
Tok(t) == <<"$", "[">> \o t \o <<"]">>

Tokens == {<<"x">>, <<"y">>, <<"z">>, <<"0">>, <<"1">>, <<"2">>, <<"3">>}

\* formats of one token and of two
Formats ==
    {<<"g">> \o Tok(t) : t \in Tokens}
    \cup {Tok(t) \o <<" ">> \o Tok(u) \o <<"e">> : t \in Tokens, u \in Tokens}

DataItem(id) == DictV(<<KV("id", StrV(id))>>)

\* data lists: distinct final segments, a shared final segment, an id without
\* a dot, a final segment that is a number, an item without an id, an id that
\* reads as a token, no item
DataLists ==
    { <<DataItem(Id_ax), DataItem(Id_by)>>,
      <<DataItem(Id_ax), DataItem(<<"b", ".", "x">>), DataItem(<<"c", ".", "y">>)>>,
      <<DataItem(<<"x">>)>>,
      <<DataItem(<<"a", ".", "2">>), DataItem(Id_by)>>,
      <<DictV(<<>>), DataItem(Id_by)>>,
      <<DataItem(Tok(<<"1">>))>>,
      <<>> }

InitFmt ==
    /\ g_messages = <<>>
    /\ defCategories = <<>>
    /\ defSettings = <<>>
    /\ lastOp = "none"
    /\ lastDecl = NoDecl
    /\ lastData = <<>>
    /\ outcome = "none"
    /\ entry = None
    /\ valid = FALSE
    /\ produced = <<>>
    /\ fromGen = FALSE
    /\ genProduced = <<>>
    /\ fsrc \in Formats
    /\ fdata \in DataLists
    /\ fmt = fsrc
    /\ begin = 0
    /\ fpc = "enter"
    /\ BuildIdle

\* up to the while loop: an entry whose data has no id is left as it is
FmtEnter ==
    /\ fpc = "enter"
    /\ fpc' = IF DataIds(fdata) = <<>> THEN "done" ELSE "loop"
    /\ UNCHANGED <<fmt, begin, fdata, fsrc>>
    /\ UNCHANGED genVars
    /\ UNCHANGED buildVars

\* one iteration of the while loop
FmtIterate ==
    /\ fpc = "loop"
    /\ Search(fmt, begin).found
    /\ fmt' = RewriteIter(fmt, Search(fmt, begin), DataIds(fdata)).fmt
    /\ begin' = RewriteIter(fmt, Search(fmt, begin), DataIds(fdata)).begin
    /\ UNCHANGED <<fdata, fsrc, fpc>>
    /\ UNCHANGED genVars
    /\ UNCHANGED buildVars

\* the search finds nothing: d['format'] = fmt
FmtExit ==
    /\ fpc = "loop"
    /\ ~Search(fmt, begin).found
    /\ fpc' = "done"
    /\ UNCHANGED <<fmt, begin, fdata, fsrc>>
    /\ UNCHANGED genVars
    /\ UNCHANGED buildVars

NextFmt ==
    \/ FmtEnter
    \/ FmtIterate
    \/ FmtExit

SpecFmt == InitFmt /\ [][NextFmt]_vars

\* the loop runs on its own until it is left
SpecFmtFair == SpecFmt /\ WF_vars(NextFmt)

(***************************************************************************)
(* _dictFromItem and _arrayFromDict called on their own                    *)
(***************************************************************************)
BuildTables ==
    {"ROOT", "CATEGORY", "ACTION", "CONNECTOR", "STATE", "EVENT", "SETTINGS", "ACT_DATA"}

\* a table by the name the model gives it
TableNamed(name) == IF name = "ROOT" THEN TPSDK_ATTRIBS_ROOT(<<>>, <<>>) ELSE Table(name)

\* items: info dicts, a category, actions (plain, with attributes of a later
\* version and nested data, with an id of the wrong type), a setting with a
\* 'type' outside the allowed values, the empty dict
BuildItems ==
    { InfoOf(IntV(2)), InfoOf(IntV(9)), InfoNoName,
      CatItem("A").v.d,
      BundleNamed.actions[1].v.d,
      BundleGated.actions[1].v.d,
      BundleBadId.actions[1].v.d,
      <<KV("name", Str1("s")), KV("type", Str1("q"))>>,
      <<>> }

BuildCollections ==
    {BundleNamed.actions, BundleUncategorised.actions, BundleGated.actions,
     BundleBadId.actions, <<>>}

CollectionTables == {"ACTION", "CONNECTOR", "STATE", "EVENT", "SETTINGS"}

\* the path generateDefinitionFromDeclaration passes with each table
CollectionPath(name) ==
    CASE name = "ACTION"    -> <<Seg("actions")>>
      [] name = "CONNECTOR" -> <<Seg("connectors")>>
      [] name = "STATE"     -> <<Seg("states")>>
      [] name = "EVENT"     -> <<Seg("events")>>
      [] name = "SETTINGS"  -> <<Seg("settings")>>

ItemPath == <<Seg("item")>>

InitBuild ==
    /\ g_messages = <<>>
    /\ defCategories = <<>>
    /\ defSettings = <<>>
    /\ lastOp = "none"
    /\ lastDecl = NoDecl
    /\ lastData = <<>>
    /\ outcome = "none"
    /\ entry = None
    /\ valid = FALSE
    /\ produced = <<>>
    /\ fromGen = FALSE
    /\ genProduced = <<>>
    /\ fmt = <<>>
    /\ begin = 0
    /\ fdata = <<>>
    /\ fsrc = <<>>
    /\ fpc = "idle"
    /\ bSdk \in {IntV(1), IntV(2), IntV(3), IntV(4)}
    /\ \/ /\ bpc = "object"
          /\ bTable \in BuildTables
          /\ bItem \in BuildItems
          /\ bCategory = None
       \/ /\ bpc = "collection"
          /\ bTable \in CollectionTables
          /\ bItem \in BuildCollections
          /\ bCategory \in {None, Str1("A"), Str1("B")}
    /\ bRet = None
    /\ bMsgs = <<>>

\* the builder returns b
Returned(b) ==
    /\ bRet' = b.ret
    /\ bMsgs' = b.msgs
    /\ UNCHANGED <<bItem, bTable, bSdk, bCategory>>
    /\ UNCHANGED genVars
    /\ UNCHANGED fmtVars

BuildObject ==
    /\ bpc = "object"
    /\ bpc' = "built"
    /\ Returned(_dictFromItem(bItem, TableNamed(bTable), bSdk, ItemPath))

BuildCollection ==
    /\ bpc = "collection"
    /\ bpc' = "listed"
    /\ Returned(_arrayFromDict(bItem, TableNamed(bTable), bSdk, bCategory,
                               CollectionPath(bTable)))

NextBuild ==
    \/ BuildObject
    \/ BuildCollection

SpecBuild == InitBuild /\ [][NextBuild]_vars

(***************************************************************************)
(* Properties                                                              *)
(***************************************************************************)
\* the most recent call was a generate call that returned its dict
GenReturned == lastOp \in GenerateOps /\ outcome = "returned"

\* the version generateDefinitionFromDeclaration resolved: entry['sdk']
ResolvedSdk == AsInt(Get(entry.d, "sdk"))

\* the category objects the most recent generate call appended, in the order
\* of the declaration's categories
NewCategories ==
    LET all == Get(entry.d, "categories").l
        n == Len(lastDecl.categories)
    IN  SubSeq(all, Len(all) - n + 1, Len(all))

\* the list kinds of a category object and the declaration field each is
\* built from
Kinds == {"actions", "states", "events", "connectors"}

Declared(kind) ==
    CASE kind = "actions"    -> lastDecl.actions
      [] kind = "states"     -> lastDecl.states
      [] kind = "events"     -> lastDecl.events
      [] kind = "connectors" -> lastDecl.connectors

\* the ids of the objects in a built list
IdsIn(list) == {Get(list[n].d, "id") : n \in 1..Len(list)}

\* C1: after a top-level call that returned or ended in an import-style
\* failure, getMessages() holds exactly the messages that call produced.
C1_SinkHoldsOnlyLastCall ==
    (lastOp # "none" /\ outcome \in {"returned", "ImportError"})
        => g_messages = produced

\* C2 as stated: an item is in category C's list if and only if its 'category'
\* equals C.
C2_ItemOnlyInNamedCategory ==
    GenReturned =>
        \A n \in 1..Len(lastDecl.categories) : \A kind \in Kinds :
            HasKey(NewCategories[n].d, kind) =>
                \A m \in 1..Len(Declared(kind)) :
                    LET item == Declared(kind)[m].v.d IN
                    Get(item, "id").t = "str" =>
                        (Get(item, "id") \in IdsIn(Get(NewCategories[n].d, kind).l)
                            <=> Get(item, "category") = KeyStr(lastDecl.categories[n].k))

\* C2 amended: an item is in category C's list if and only if its 'category'
\* equals C or it has no (or an empty) 'category'.
C2_ItemInNamedOrEveryCategory ==
    GenReturned =>
        \A n \in 1..Len(lastDecl.categories) : \A kind \in Kinds :
            HasKey(NewCategories[n].d, kind) =>
                \A m \in 1..Len(Declared(kind)) :
                    LET item == Declared(kind)[m].v.d IN
                    Get(item, "id").t = "str" =>
                        (Get(item, "id") \in IdsIn(Get(NewCategories[n].d, kind).l)
                            <=> \/ Get(item, "category") = KeyStr(lastDecl.categories[n].k)
                                \/ Falsy(Get(item, "category")))

\* C2 witness: two categories; the action that names B is in B's list only,
\* the action without a category is in both lists.
C2_Witness ==
    /\ GenReturned
    /\ lastDecl.categories = TwoCategories
    /\ lastDecl.actions =
           <<Item("a1", Str1("a"), None, <<>>), Item("a2", Str1("b"), Str1("B"), <<>>)>>
    /\ IdsIn(Get(NewCategories[1].d, "actions").l) = {Str1("a")}
    /\ IdsIn(Get(NewCategories[2].d, "actions").l) = {Str1("a"), Str1("b")}

\* every key of the dict d, and of the objects in its nested lists, has a
\* minimum version no later than sdk
RECURSIVE GatedDict(_, _, _)
GatedDict(d, table, sdk) ==
    \A n \in 1..Len(d) :
        LET a == TableGet(table, d[n].k) IN
        /\ a.v <= sdk
        /\ (d[n].v.t = "list" /\ a.l # "") =>
               \A m \in 1..Len(d[n].v.l) :
                   d[n].v.l[m].t = "dict" => GatedDict(d[n].v.l[m].d, Table(a.l), sdk)

\* C3: the version the generator resolved gates the whole output: no key of
\* the tree needs a later version, 'settings' is there only from version 3 on
\* and 'connectors' only from version 4 on.
C3_OneVersionGatesWholeTree ==
    GenReturned =>
        /\ GatedDict(entry.d, TPSDK_ATTRIBS_ROOT(<<>>, <<>>), ResolvedSdk)
        /\ HasKey(entry.d, "settings") => ResolvedSdk >= 3
        /\ \A n \in 1..Len(NewCategories) :
               HasKey(NewCategories[n].d, "connectors") => ResolvedSdk >= 4

\* how many times m is in msgs
Count(msgs, m) == Cardinality({n \in 1..Len(msgs) : msgs[n] = m})

\* the attributes of the table that need a later version than sdk and whose
\* declared or defaulted value for item is otherwise acceptable
GatedOut(item, table, sdk) ==
    {n \in 1..Len(table) :
        /\ table[n].v > sdk
        /\ EffectiveValue(item, table[n]) # None
        /\ \/ IsInstance(EffectiveValue(item, table[n]), table[n].t)
           \/ EffectiveValue(item, table[n]).t = "dict" /\ table[n].t = "list"
        /\ table[n].c = {} \/ InChoices(EffectiveValue(item, table[n]), table[n].c)}

\* the actions declared with the key of a declared category as 'category'
NamedActions ==
    {m \in 1..Len(lastDecl.actions) :
        \E n \in 1..Len(lastDecl.categories) :
            Get(lastDecl.actions[m].v.d, "category") = KeyStr(lastDecl.categories[n].k)}

\* C4: a root or action attribute that needs a later version than the resolved
\* one, its value being acceptable otherwise, is not in the output and has
\* exactly one version message.
C4_GatedAttributeLeftOutWithOneMessage ==
    (lastOp = "generateDefinitionFromDeclaration" /\ outcome = "returned") =>
        /\ \A n \in GatedOut(lastDecl.info, TPSDK_ATTRIBS_ROOT(<<>>, <<>>),
                             ResolvedSdk) :
               LET k == TPSDK_ATTRIBS_ROOT(<<>>, <<>>)[n].k IN
               /\ ~HasKey(entry.d, k)
               /\ Count(produced, Msg("version", <<Seg("info"), Seg(k)>>)) = 1
        /\ \A m \in NamedActions :
               \A n \in GatedOut(lastDecl.actions[m].v.d, TPSDK_ATTRIBS_ACTION, ResolvedSdk) :
                   LET k == TPSDK_ATTRIBS_ACTION[n].k IN
                   /\ \A c \in 1..Len(NewCategories) :
                          \A i \in 1..Len(Get(NewCategories[c].d, "actions").l) :
                              ~HasKey(Get(NewCategories[c].d, "actions").l[i].d, k)
                   /\ Count(produced,
                            Msg("version",
                                <<Seg("actions"), Idx(lastDecl.actions[m].k), Seg(k)>>)) = 1

\* the 'sdk' of info is there and is not an int among the allowed values
SdkInvalid(info) ==
    /\ Get(info, "sdk") # None
    /\ \/ ~IsInstance(Get(info, "sdk"), "int")
       \/ ~InChoices(Get(info, "sdk"), TableGet(TPSDK_ATTRIBS_ROOT(<<>>, <<>>), "sdk").c)

\* C5: with no 'sdk' in info, or an invalid one, generation returns a
\* definition whose 'sdk' is the default version.
C5_MissingOrInvalidSdkFallsBack ==
    (/\ lastOp = "generateDefinitionFromDeclaration"
     /\ Get(lastDecl.info, "sdk") = None \/ SdkInvalid(lastDecl.info))
        => /\ outcome = "returned"
           /\ Get(entry.d, "sdk") = IntV(TPSDK_DEFAULT_VERSION)

\* the members of a value declared for a list attribute: the values of the
\* dict, or the elements of the list
Members(v) ==
    IF v.t = "dict" THEN [n \in 1..Len(v.d) |-> v.d[n].v]
    ELSE IF v.t = "list" THEN v.l
    ELSE <<>>

\* every attribute item declares is in the table and passes validateAttribValue
\* at the version sdk, every required attribute without a default is declared,
\* and so for the members of its nested lists ('category' is the filter field
\* of an item, not an attribute)
RECURSIVE SatisfiesSchema(_, _, _)
SatisfiesSchema(item, table, sdk) ==
    /\ \A n \in 1..Len(table) :
           (table[n].r /\ table[n].d = None) => Get(item, table[n].k) # None
    /\ \A n \in 1..Len(item) :
           item[n].k # "category" =>
               LET a == TableGet(table, item[n].k)
                   v == IF item[n].v.t = "dict" /\ a.t = "list"
                        THEN ListV(Members(item[n].v)) ELSE item[n].v
               IN  /\ a # NoAttr
                   /\ validateAttribValue(a.k, v, a, IntV(sdk), <<>>).ok
                   /\ a.l # "" =>
                          \A m \in 1..Len(v.l) :
                              /\ v.l[m].t = "dict"
                              /\ SatisfiesSchema(v.l[m].d, Table(a.l), sdk)

\* the version a declaration asks for
DeclaredSdk(decl) ==
    IF Get(decl.info, "sdk") = None THEN TPSDK_DEFAULT_VERSION
    ELSE AsInt(Get(decl.info, "sdk"))

AllSatisfy(items, table, sdk) ==
    \A n \in 1..Len(items) : SatisfiesSchema(items[n].v.d, table, sdk)

\* every attribute the declaration declares satisfies its table entry at the
\* version the declaration asks for
WellFormed(decl) ==
    /\ ~SdkInvalid(decl.info)
    /\ SatisfiesSchema(decl.info, TPSDK_ATTRIBS_ROOT(<<>>, <<>>), DeclaredSdk(decl))
    /\ AllSatisfy(decl.categories, TPSDK_ATTRIBS_CATEGORY, DeclaredSdk(decl))
    /\ AllSatisfy(decl.settings, TPSDK_ATTRIBS_SETTINGS, DeclaredSdk(decl))
    /\ AllSatisfy(decl.actions, TPSDK_ATTRIBS_ACTION, DeclaredSdk(decl))
    /\ AllSatisfy(decl.states, TPSDK_ATTRIBS_STATE, DeclaredSdk(decl))
    /\ AllSatisfy(decl.events, TPSDK_ATTRIBS_EVENT, DeclaredSdk(decl))
    /\ AllSatisfy(decl.connectors, TPSDK_ATTRIBS_CONNECTOR, DeclaredSdk(decl))

\* C6: the definition generated from a well-formed declaration, of any
\* supported version, was generated without a message and validates without
\* one: validateDefinitionObject returns True.
C6_GeneratedDefinitionValidatesClean ==
    (fromGen /\ WellFormed(lastDecl)) =>
        /\ genProduced = <<>>
        /\ outcome = "returned"
        /\ valid
        /\ g_messages = <<>>

\* the full ids of a data list, in the order they appear in it
RECURSIVE FullIds(_)
FullIds(data) ==
    IF data = <<>> THEN <<>>
    ELSE (IF Falsy(Get(data[1].d, "id")) THEN <<>> ELSE <<Get(data[1].d, "id").s>>)
         \o FullIds(Tail(data))

\* the full ids the token t may resolve to: one whose final segment is t,
\* else the t-th of the list for a positive integer t within it, else none
Resolutions(t, ids) ==
    IF \E n \in 1..Len(ids) : LastSegment(ids[n]) = t
    THEN {ids[n] : n \in {m \in 1..Len(ids) : LastSegment(ids[m]) = t}}
    ELSE IF IsDigit(t) /\ ToInt(t) >= 1 /\ ToInt(t) <= Len(ids)
    THEN {ids[ToInt(t)]}
    ELSE {}

\* what a token becomes: "{$<fullid>$}" for a resolution, itself with none
Replacements(text, t, ids) ==
    IF Resolutions(t, ids) = {} THEN {text}
    ELSE {<<"{", "$">> \o id \o <<"$", "}">> : id \in Resolutions(t, ids)}

\* the results the rule allows for f from offset b on, token by token
RECURSIVE Rewritten(_, _, _)
Rewritten(f, b, ids) ==
    LET m == Search(f, b) IN
    IF ~m.found THEN {SubSeq(f, b + 1, Len(f))}
    ELSE {SubSeq(f, b + 1, m.start) \o x \o rest :
            x \in Replacements(SubSeq(f, m.start + 1, m.end), m.tok, ids),
            rest \in Rewritten(f, m.end, ids)}

\* C7: when _replaceFormatTokens is done with an entry, every token of its
\* format is replaced by the full id with that final segment, else by the
\* n-th full id of its data for a positive integer n within the list, else
\* left as it was.
C7_TokensResolvedByNameThenPosition ==
    fpc = "done" => fmt \in Rewritten(fsrc, 0, FullIds(fdata))

\* C8: validateDefinitionObject of a manifest that is valid but for one
\* required root attribute, which has no key or a null value, returns False
\* with exactly one message: that attribute is missing.
C8_OneMissingRequiredOneMessage ==
    (lastOp = "validateDefinitionObject" /\ ~fromGen) =>
        \A k \in RequiredRoot :
            lastData \in MissingOne(k) =>
                /\ outcome = "returned"
                /\ ~valid
                /\ g_messages = <<Msg("missing", <<Seg(k)>>)>>

\* d without the keys its table lacks, and so for the dicts in its nested lists
RECURSIVE StripUnknown(_, _)
StripUnknown(d, table) ==
    LET stripped(n) ==
            LET a == TableGet(table, d[n].k) IN
            IF a = NoAttr THEN <<>>
            ELSE IF d[n].v.t = "list" /\ a.l # ""
            THEN <<KV(d[n].k,
                      ListV([m \in 1..Len(d[n].v.l) |->
                                IF d[n].v.l[m].t = "dict"
                                THEN DictV(StripUnknown(d[n].v.l[m].d, Table(a.l)))
                                ELSE d[n].v.l[m]]))>>
            ELSE <<d[n]>>
        F[n \in 0..Len(d)] == IF n = 0 THEN <<>> ELSE F[n - 1] \o stripped(n)
    IN  F[Len(d)]

\* the paths of the keys their tables lack, in d and in the dicts of those of
\* its nested lists that validateAttribValue accepts
RECURSIVE UnknownPaths(_, _, _, _)
UnknownPaths(d, table, sdk_v, path) ==
    UNION {LET a == TableGet(table, d[n].k)
               keypath == _keyPath(path, d[n].k)
           IN  IF a = NoAttr THEN {keypath}
               ELSE IF /\ d[n].v.t = "list" /\ a.l # ""
                       /\ validateAttribValue(d[n].k, d[n].v, a, sdk_v, path).ok
               THEN UNION {IF d[n].v.l[m].t = "dict"
                           THEN UnknownPaths(d[n].v.l[m].d, Table(a.l), sdk_v,
                                             Bracket(keypath, IdxStr(m - 1)))
                           ELSE {} : m \in 1..Len(d[n].v.l)}
               ELSE {} : n \in 1..Len(d)}

NotUnknown(m) == m.kind # "unknown"

\* C9: a validation of a manifest with keys the tables lack ends as the
\* validation of the manifest without them does and records the same messages
\* for the other keys, in the same order; no unknown key has two messages, and
\* each one in an object the completed walk visits has exactly one.
C9_UnknownKeyOneMessageWalkGoesOn ==
    (lastOp = "validateDefinitionObject"
        /\ lastData # StripUnknown(lastData, TPSDK_ATTRIBS_ROOT(<<>>, <<>>))) =>
        LET w == ValidateObjectWalk(StripUnknown(lastData, TPSDK_ATTRIBS_ROOT(<<>>, <<>>)),
                                    defCategories, defSettings)
        IN  /\ outcome = IF w.exc = "" THEN "returned" ELSE w.exc
            /\ SelectSeq(g_messages, NotUnknown) = w.msgs
            /\ \A n \in 1..Len(g_messages) :
                   g_messages[n].kind = "unknown" => Count(g_messages, g_messages[n]) = 1
            /\ outcome = "returned" =>
                   \A p \in UnknownPaths(lastData, TPSDK_ATTRIBS_ROOT(<<>>, <<>>),
                                         GetOr(lastData, "sdk", IntV(TPSDK_DEFAULT_VERSION)),
                                         <<>>) :
                       Count(g_messages, Msg("unknown", p)) = 1

\* C9 witness: the unknown key comes before 'categories'; its message is
\* followed by one for an action of the nested list.
C9_Witness ==
    /\ lastOp = "validateDefinitionObject"
    /\ lastData = InsertAt(MBadNested, 2, UnknownKV)
    /\ outcome = "returned"
    /\ \E n \in 1..Len(g_messages) :
           /\ g_messages[n] = Msg("unknown", <<Seg("foo")>>)
           /\ \E m \in (n + 1)..Len(g_messages) :
                  /\ g_messages[m].kind = "type"
                  /\ Len(g_messages[m].path) > 1

\* C10: validateDefinitionObject of any decoded object returns, and returns
\* True if and only if the call recorded no message.
C10_ValidationReturnsTrueIffNoMessage ==
    lastOp = "validateDefinitionObject" =>
        /\ outcome = "returned"
        /\ valid <=> produced = <<>>

\* C11: the default lists of the root table stay as they were at the start,
\* and a definition generateDefinitionFromDeclaration returns has one
\* category object per declared category and at most one setting per declared
\* setting.
C11_TablesKeepTheirDefaults ==
    /\ defCategories = <<>>
    /\ defSettings = <<>>
    /\ (lastOp = "generateDefinitionFromDeclaration" /\ outcome = "returned") =>
           /\ Len(Get(entry.d, "categories").l) = Len(lastDecl.categories)
           /\ HasKey(entry.d, "settings") =>
                  Len(Get(entry.d, "settings").l) <= Len(lastDecl.settings)

\* C12: whatever the entry point and whatever calls came before, a validation
\* of a decoded manifest ends as, returns what, and leaves the messages that
\* the walk of that manifest alone gives.
C12_ValidationDependsOnManifestOnly ==
    (lastOp \in ValidateOps /\ outcome \notin {"OSError", "JSONDecodeError"}) =>
        LET w == ValidateObjectWalk(lastData, <<>>, <<>>) IN
        /\ outcome = IF w.exc = "" THEN "returned" ELSE w.exc
        /\ g_messages = w.msgs
        /\ valid <=> (w.exc = "" /\ w.msgs = <<>>)

\* C12 witness: a manifest with two deviations validated from a file after
\* generate calls that left category objects in the table's default.
C12_Witness ==
    /\ lastOp = "validateDefinitionFile"
    /\ lastData = MBadNested
    /\ defCategories # <<>>
    /\ outcome = "returned"
    /\ ~valid
    /\ Len(g_messages) = 2

\* the effective value of the table entry a for item, a nested dict expanded
BuiltValue(item, a, sdk_v, path) == Expanded(EffectiveValue(item, a), a, sdk_v, path).ret

\* what validateAttribValue gives for that value
Checked(item, a, sdk_v, path) ==
    validateAttribValue(a.k, BuiltValue(item, a, sdk_v, path), a, sdk_v, path)

\* ret has the keys of the table whose effective value passes and no other
\* key, and msgs has the messages of those that fail
KeysAsRuled(ret, msgs, item, table, sdk_v, path) ==
    /\ \A n \in 1..Len(table) :
           /\ HasKey(ret, table[n].k) <=> Checked(item, table[n], sdk_v, path).ok
           /\ \A i \in 1..Len(Checked(item, table[n], sdk_v, path).msgs) :
                  Count(msgs, Checked(item, table[n], sdk_v, path).msgs[i]) >= 1
    /\ \A n \in 1..Len(ret) : TableGet(table, ret[n].k) # NoAttr

\* the items of the collection that the category filter admits
AdmittedItems == SelectSeq(bItem, LAMBDA kv : Admits(kv.v.d, bCategory))

\* C13: the object _dictFromItem returns has a key of the table if and only
\* if the key's effective value passes validateAttribValue at the version
\* passed in, with that value under it, and has no other key; the messages
\* of the failing attributes are recorded; _arrayFromDict returns one such
\* object for every item it admits, whatever attributes of the item fail.
C13_KeyBuiltIffValuePasses ==
    /\ bpc = "built" =>
           /\ KeysAsRuled(bRet, bMsgs, bItem, TableNamed(bTable), bSdk, ItemPath)
           /\ \A n \in 1..Len(bRet) :
                  bRet[n].v = BuiltValue(bItem, TableGet(TableNamed(bTable), bRet[n].k),
                                         bSdk, ItemPath)
    /\ bpc = "listed" =>
           /\ Len(bRet) = Len(AdmittedItems)
           /\ \A j \in 1..Len(bRet) :
                  /\ bRet[j].t = "dict"
                  /\ KeysAsRuled(bRet[j].d, bMsgs, AdmittedItems[j].v.d, TableNamed(bTable),
                                 bSdk, Bracket(CollectionPath(bTable), AdmittedItems[j].k))

\* C13 witness: an action whose id has the wrong type is built without 'id',
\* with its other attributes, and the message for 'id' is recorded.
C13_Witness ==
    /\ bpc = "built"
    /\ bTable = "ACTION"
    /\ bItem = BundleBadId.actions[1].v.d
    /\ ~HasKey(bRet, "id")
    /\ HasKey(bRet, "type")
    /\ bMsgs = <<Msg("type", <<Seg("item"), Seg("id")>>)>>

\* validateAttribValue returns False with a message for the value v of the
\* table entry a, which has a nested table
IsFlagged(k, v, a, sdk_v, path) ==
    /\ a # NoAttr /\ a.l # "" /\ v # None
    /\ ~validateAttribValue(k, v, a, sdk_v, path).ok
    /\ validateAttribValue(k, v, a, sdk_v, path).exc = ""

\* the flagged attributes with a nested table, in d and in the dicts of the
\* nested lists that are not flagged: path, value and nested table of each
RECURSIVE Flagged(_, _, _, _)
Flagged(d, table, sdk_v, path) ==
    UNION {LET a == TableGet(table, d[n].k)
               keypath == _keyPath(path, d[n].k)
           IN  IF IsFlagged(d[n].k, d[n].v, a, sdk_v, path)
               THEN {[path |-> keypath, v |-> d[n].v, l |-> a.l]}
               ELSE IF /\ a # NoAttr /\ a.l # "" /\ d[n].v.t = "list"
                       /\ validateAttribValue(d[n].k, d[n].v, a, sdk_v, path).ok
               THEN UNION {IF d[n].v.l[m].t = "dict"
                           THEN Flagged(d[n].v.l[m].d, Table(a.l), sdk_v,
                                        Bracket(keypath, IdxStr(m - 1)))
                           ELSE {} : m \in 1..Len(d[n].v.l)}
               ELSE {} : n \in 1..Len(d)}

\* d without those attributes
RECURSIVE StripFlagged(_, _, _, _)
StripFlagged(d, table, sdk_v, path) ==
    LET stripped(n) ==
            LET a == TableGet(table, d[n].k)
                keypath == _keyPath(path, d[n].k)
            IN  IF IsFlagged(d[n].k, d[n].v, a, sdk_v, path) THEN <<>>
                ELSE IF /\ a # NoAttr /\ a.l # "" /\ d[n].v.t = "list"
                        /\ validateAttribValue(d[n].k, d[n].v, a, sdk_v, path).ok
                THEN <<KV(d[n].k,
                          ListV([m \in 1..Len(d[n].v.l) |->
                                    IF d[n].v.l[m].t = "dict"
                                    THEN DictV(StripFlagged(d[n].v.l[m].d, Table(a.l), sdk_v,
                                                            Bracket(keypath, IdxStr(m - 1))))
                                    ELSE d[n].v.l[m]]))>>
                ELSE <<d[n]>>
        F[n \in 0..Len(d)] == IF n = 0 THEN <<>> ELSE F[n - 1] \o stripped(n)
    IN  F[Len(d)]

IsPrefix(p, q) == Len(p) <= Len(q) /\ SubSeq(q, 1, Len(p)) = p

SdkOf(data) == GetOr(data, "sdk", IntV(TPSDK_DEFAULT_VERSION))

\* the flagged attributes of the manifest the most recent validate call got
LastFlagged == Flagged(lastData, TPSDK_ATTRIBS_ROOT(<<>>, <<>>), SdkOf(lastData), <<>>)

LastFlaggedPaths == {f.path : f \in LastFlagged}

UnderFlagged(m) == \E p \in LastFlaggedPaths : IsPrefix(p, m.path)

NotUnderFlagged(m) == ~UnderFlagged(m)

\* C14 as stated: the members of a flagged attribute's list are audited too:
\* one that has deviations has messages.
C14_FlaggedListStillAudited ==
    (lastOp = "validateDefinitionObject" /\ outcome = "returned") =>
        \A f \in LastFlagged :
            f.v.t = "list" =>
                \A i \in 1..Len(f.v.l) :
                    (/\ f.v.l[i].t = "dict"
                     /\ _validateDefinitionDict(f.v.l[i].d, Table(f.l), SdkOf(lastData),
                                                Bracket(f.path, IdxStr(i - 1))).msgs # <<>>)
                        => \E n \in 1..Len(g_messages) :
                               IsPrefix(Bracket(f.path, IdxStr(i - 1)), g_messages[n].path)

\* C14 amended: a flagged attribute with a nested table has its one message
\* and nothing of its value is audited; the walk ends as, and records for
\* everything else what, the walk of the manifest without the flagged
\* attributes does (which misses them where they are required).
C14_FlaggedSkippedSiblingsAudited ==
    (lastOp = "validateDefinitionObject" /\ LastFlagged # {}) =>
        LET w == ValidateObjectWalk(StripFlagged(lastData, TPSDK_ATTRIBS_ROOT(<<>>, <<>>),
                                                 SdkOf(lastData), <<>>),
                                    defCategories, defSettings)
        IN  /\ outcome = IF w.exc = "" THEN "returned" ELSE w.exc
            /\ SelectSeq(g_messages, NotUnderFlagged) = SelectSeq(w.msgs, NotUnderFlagged)
            /\ \A n \in 1..Len(w.msgs) :
                   UnderFlagged(w.msgs[n]) =>
                       w.msgs[n].kind = "missing" /\ w.msgs[n].path \in LastFlaggedPaths
            /\ \A n \in 1..Len(g_messages) :
                   UnderFlagged(g_messages[n]) =>
                       /\ g_messages[n].path \in LastFlaggedPaths
                       /\ g_messages[n].kind \in {"type", "version", "value"}
                       /\ Count(g_messages, g_messages[n]) = 1
            /\ outcome = "returned" =>
                   \A p \in LastFlaggedPaths :
                       \E n \in 1..Len(g_messages) : g_messages[n].path = p

\* C14 witness: 'settings' is flagged for its version and its member is not
\* audited; the 'name' after it and the action in the categories are.
C14_Witness ==
    /\ lastOp = "validateDefinitionObject"
    /\ lastData = MFlaggedFirst
    /\ outcome = "returned"
    /\ g_messages = << Msg("version", <<Seg("settings")>>),
                       Msg("type", <<Seg("name")>>),
                       Msg("type", <<Seg("categories"), Idx("0"), Seg("actions"), Idx("0"),
                                     Seg("id")>>) >>

IsSuffix(p, q) == Len(p) <= Len(q) /\ SubSeq(q, Len(q) - Len(p) + 1, Len(q)) = p

\* the text from begin on is text of the original format not scanned yet
UnscannedIsOriginal ==
    fpc \in {"loop", "done"} =>
        /\ begin <= Len(fmt)
        /\ IsSuffix(SubSeq(fmt, begin + 1, Len(fmt)), fsrc)

\* an iteration takes the leftmost token from begin on; begin grows; with no
\* replacement it is the token's end, with one it is the end of the inserted
\* "{$<fullid>$}", before and after which the text is as it was
ResumesAfterToken ==
    (fpc = "loop" /\ fpc' = "loop") =>
        LET m == Search(fmt, begin) IN
        /\ m.found
        /\ begin' > begin
        /\ IF fmt' = fmt THEN begin' = m.end
           ELSE /\ SubSeq(fmt', 1, m.start) = SubSeq(fmt, 1, m.start)
                /\ \E n \in 1..Len(FullIds(fdata)) :
                       SubSeq(fmt', m.start + 1, begin')
                           = <<"{", "$">> \o FullIds(fdata)[n] \o <<"$", "}">>
                /\ SubSeq(fmt', begin' + 1, Len(fmt')) = SubSeq(fmt, m.end + 1, Len(fmt))

\* rewriting the rewritten format with the same data leaves it as it is
RewrittenAgainSame ==
    (fpc = "done" /\ DataIds(fdata) # <<>>) =>
        RewriteLoop(fmt, 0, DataIds(fdata)) = fmt

\* no full id has a "$" in it
PlainIds ==
    \A n \in 1..Len(FullIds(fdata)) :
        \A i \in 1..Len(FullIds(fdata)[n]) : FullIds(fdata)[n][i] # "$"

=============================================================================
